---- MODULE Spec2Model ----
(***************************************************************************)
(* Spraay TAO batch transfers (src/spraay_tao/batch.py).                   *)
(*                                                                         *)
(* Amounts are integers in RAO (1 TAO = 10^9 RAO): the nine decimal places *)
(* that round(x, 9) keeps in the source are exactly the RAO.  A product    *)
(* total * percent / 100 is kept exact as a whole number of RAO plus a     *)
(* remainder in thousandths of a RAO.                                      *)
(***************************************************************************)
EXTENDS Integers, Sequences, FiniteSets, TLC

VARIABLES
    op,                  \* the function that is running
    pc,                  \* its position
    recipients,          \* the recipient list it was called with
    max_size,            \* chunk_recipients' max_size argument
    SPRAAY_FEE_WALLET,   \* module-level fee configuration (batch.py:45-46)
    SPRAAY_FEE_PERCENT,
    is_valid,            \* validate_recipients' return value
    errors,
    chunks,              \* chunk_recipients' return value
    fee_r,               \* calculate_spraay_fee's return value: <<>> is None
    chain,               \* calls made to the chain client / wallet, in order
    balance,             \* balance returned by get_balance
    total_amount,
    total_spraay_fee,
    chunk_idx,           \* loop index of the chunk loop (0-based)
    pending,             \* submissions sent and not yet answered
    submitted,           \* units handed to sign_and_send_extrinsic, with their batch number
    outcomes,            \* what the chain client did for each chunk so far
    results,             \* the list of BatchResult
    sample_call,         \* estimate_fee's sample call: <<>> until built
    fee_info,            \* get_payment_info's answer: <<>> is None
    estimate,            \* the FeeEstimate returned: <<>> until returned
    cli_pc,              \* position of cmd_transfer (cli.py): "" when it is not running
    csv_file             \* the file parse_recipients_csv reads: header and rows of cells

vars == <<op, pc, recipients, max_size, SPRAAY_FEE_WALLET, SPRAAY_FEE_PERCENT,
          is_valid, errors, chunks, fee_r, chain, balance, total_amount,
          total_spraay_fee, chunk_idx, pending, submitted, outcomes, results,
          sample_call, fee_info, estimate, cli_pc, csv_file>>

----------------------------------------------------------------------------
(* Bounds of the model *)

\* longest recipient list given to validate_recipients
MaxValidateLen == 5
\* longest recipient list given to chunk_recipients and calculate_spraay_fee
MaxPureLen == 5
\* largest max_size given to chunk_recipients
MaxSize == 3
\* longest recipient list of a transfer or estimate run
MaxRunLen == 5
\* MAX_BATCH_SIZE of the model: the source's 199 scaled down so that a run
\* of MaxRunLen recipients spans several chunks
MaxChunk == 2
\* rows of the file given to parse_recipients_csv
MaxCsvRows == 2

----------------------------------------------------------------------------
(* Program constants *)

MAX_BATCH_SIZE == MaxChunk

\* 0.0005 TAO
MIN_TRANSFER_TAO == 500000

\* 0.3 percent, in tenths of a percent
FEE_PERCENT_DEFAULT == 3
\* "/ 100.0" for a percent given in tenths of a percent
PercentScale == 1000

FEE_WALLET_DEFAULT == "SpraayFeeWallet"

\* 0.001 TAO
SPRAAY_MIN_FEE_TAO == 1000000

\* fee_per_batch when get_payment_info yields nothing: 0.001 TAO
FallbackFeePerBatch == 1000000

----------------------------------------------------------------------------
(* Addresses.  is_valid_bittensor_address_or_public_key is a library      *)
(* predicate: the well-formed addresses are Addr[1], Addr[2], ..., and     *)
(* "not-ss58" is malformed.                                                *)

Addr == <<"5A1", "5A2", "5A3", "5A4", "5A5", "5A6", "5A7">>
BadAddress == "not-ss58"

is_valid_bittensor_address_or_public_key(address) ==
    \E i \in DOMAIN Addr : Addr[i] = address

Recipient(address, amount) == [address |-> address, amount |-> amount]

----------------------------------------------------------------------------
(* Recipient.validate: the list of error kinds of one recipient *)

Recipient_validateNoMinimum(r) ==
    (IF ~is_valid_bittensor_address_or_public_key(r.address)
        THEN <<"invalid_address">> ELSE <<>>)
    \o (IF r.amount <= 0 THEN <<"not_positive">> ELSE <<>>)

Recipient_validate(r) ==
    (IF ~is_valid_bittensor_address_or_public_key(r.address)
        THEN <<"invalid_address">> ELSE <<>>)
    \o (IF r.amount <= 0 THEN <<"not_positive">> ELSE <<>>)
    \o (IF r.amount < MIN_TRANSFER_TAO THEN <<"below_minimum">> ELSE <<>>)

\* an error string of validate_recipients: what it is about and the 1-based
\* positions it cites (prev is 0 when the error cites one position)
RecipientError(kind, pos) == [kind |-> kind, prev |-> 0, pos |-> pos]
DuplicateError(prev, pos) == [kind |-> "duplicate", prev |-> prev, pos |-> pos]

RECURSIVE PrefixErrors(_, _)
PrefixErrors(r_errors, pos) ==
    IF r_errors = <<>> THEN <<>>
    ELSE <<RecipientError(Head(r_errors), pos)>> \o PrefixErrors(Tail(r_errors), pos)

\* seen_addresses[address] = i
Remember(seen, address, i) ==
    [a \in (DOMAIN seen) \cup {address} |-> IF a = address THEN i ELSE seen[a]]

\* the loop of validate_recipients from index i (0-based) on
RECURSIVE ValidateLoop(_, _, _, _)
ValidateLoop(rs, i, seen, errs) ==
    IF i >= Len(rs) THEN errs
    ELSE LET r == rs[i + 1]
             e1 == errs \o PrefixErrors(Recipient_validate(r), i + 1)
             e2 == IF r.address \in DOMAIN seen
                      THEN e1 \o <<DuplicateError(seen[r.address] + 1, i + 1)>>
                      ELSE e1
         IN ValidateLoop(rs, i + 1, Remember(seen, r.address, i), e2)

validate_recipients(rs) ==
    LET errs == ValidateLoop(rs, 0, <<>>, <<>>)
    IN [is_valid |-> Len(errs) = 0, errors |-> errs]

----------------------------------------------------------------------------
(* chunk_recipients *)

Min(a, b) == IF a < b THEN a ELSE b

\* recipients[lo : hi] of Python, 0-based and clamped to the list
Slice(s, lo, hi) == SubSeq(s, lo + 1, Min(hi, Len(s)))

\* range(i, n, step)
RECURSIVE Range(_, _, _)
Range(i, n, step) == IF i >= n THEN <<>> ELSE <<i>> \o Range(i + step, n, step)

chunk_recipientsOffByOne(rs, size) ==
    LET starts == Range(0, Len(rs), size)
    IN [k \in DOMAIN starts |-> Slice(rs, starts[k], starts[k] + size - 1)]

chunk_recipients(rs, size) ==
    LET starts == Range(0, Len(rs), size)
    IN [k \in DOMAIN starts |-> Slice(rs, starts[k], starts[k] + size)]

----------------------------------------------------------------------------
(* calculate_spraay_fee *)

RECURSIVE SumAmounts(_)
SumAmounts(rs) == IF rs = <<>> THEN 0 ELSE Head(rs).amount + SumAmounts(Tail(rs))

\* total * (percent / 100.0) = FeeWhole RAO + FeeThousandths / 1000 RAO
FeeWhole(total, percent) ==
    (total \div PercentScale) * percent
        + ((total % PercentScale) * percent) \div PercentScale
FeeThousandths(total, percent) == ((total % PercentScale) * percent) % PercentScale

\* round(fee_amount, 9): to the nearest RAO, a tie to the even RAO
Round9(whole, thousandths) ==
    IF thousandths * 2 > PercentScale THEN whole + 1
    ELSE IF thousandths * 2 = PercentScale THEN whole + (whole % 2)
    ELSE whole

calculate_spraay_feeRoundFirst(rs) ==
    IF SPRAAY_FEE_WALLET = "" \/ SPRAAY_FEE_PERCENT <= 0 THEN <<>>
    ELSE LET total == SumAmounts(rs)
             whole == FeeWhole(total, SPRAAY_FEE_PERCENT)
             thousandths == FeeThousandths(total, SPRAAY_FEE_PERCENT)
         IN IF Round9(whole, thousandths) < SPRAAY_MIN_FEE_TAO THEN <<>>
            ELSE <<Recipient(SPRAAY_FEE_WALLET, Round9(whole, thousandths))>>

calculate_spraay_fee(rs) ==
    IF SPRAAY_FEE_WALLET = "" \/ SPRAAY_FEE_PERCENT <= 0 THEN <<>>
    ELSE LET total == SumAmounts(rs)
             whole == FeeWhole(total, SPRAAY_FEE_PERCENT)
             thousandths == FeeThousandths(total, SPRAAY_FEE_PERCENT)
         IN \* fee_amount < SPRAAY_MIN_FEE_TAO, on the unrounded fee_amount
            IF whole < SPRAAY_MIN_FEE_TAO THEN <<>>
            ELSE <<Recipient(SPRAAY_FEE_WALLET, Round9(whole, thousandths))>>

----------------------------------------------------------------------------
(* Inputs *)

\* the list whose i-th recipient has the address number choice[i] of
\* addrsAt[i] and the amount amounts[i]
RecipientList(addrsAt, choice, amounts) ==
    [i \in DOMAIN amounts |-> Recipient(addrsAt[i][choice[i]], amounts[i])]

\* recipients is a list of at most n recipients whose i-th recipient has one
\* of the first c addresses of addrsAt[i] and an amount of Amounts
ListsOver(addrsAt, c, Amounts, n) ==
    \E k \in 0..n : \E choice \in [1..k -> 1..c], amounts \in [1..k -> Amounts] :
        recipients = RecipientList(addrsAt, choice, amounts)

\* amounts given to validate_recipients: zero, below the minimum, the minimum
ValidateAmounts == {0, MIN_TRANSFER_TAO - 100000, MIN_TRANSFER_TAO}
ValidateAddrsAt == [i \in DOMAIN Addr |-> <<Addr[1], Addr[2], BadAddress>>]

\* chunk_recipients looks at positions only: every position has its own address
PositionAddrsAt == [i \in DOMAIN Addr |-> <<Addr[i]>>]
ChunkAmounts == {MIN_TRANSFER_TAO, 2 * MIN_TRANSFER_TAO}

\* amounts given to calculate_spraay_fee: totals on both sides of the fee
\* threshold (0.3 percent of 333333334 RAO is the first fee of 0.001 TAO)
FeeAmounts == {MIN_TRANSFER_TAO, 166666650, 333333300, 333333400}
FeeWallets == {"", FEE_WALLET_DEFAULT}
FeePercents == {0 - FEE_PERCENT_DEFAULT, 0, FEE_PERCENT_DEFAULT}

\* a file that is not read
NoFile == [header |-> <<>>, rows |-> <<>>]

\* the state before any function has run
FreshState ==
    /\ pc = "call"
    /\ is_valid = FALSE
    /\ errors = <<>>
    /\ chunks = <<>>
    /\ fee_r = <<>>
    /\ chain = <<>>
    /\ balance = 0
    /\ total_amount = 0
    /\ total_spraay_fee = 0
    /\ chunk_idx = 0
    /\ pending = {}
    /\ submitted = <<>>
    /\ outcomes = <<>>
    /\ results = <<>>
    /\ sample_call = <<>>
    /\ fee_info = <<>>
    /\ estimate = <<>>
    /\ cli_pc = ""

Fresh == FreshState /\ csv_file = NoFile

DefaultFees ==
    /\ SPRAAY_FEE_WALLET = FEE_WALLET_DEFAULT
    /\ SPRAAY_FEE_PERCENT = FEE_PERCENT_DEFAULT

estimateVars == <<sample_call, fee_info, estimate>>
runVars == <<chain, balance, total_amount, total_spraay_fee, chunk_idx, pending,
             submitted, outcomes, results, estimateVars>>
inputVars == <<op, recipients, max_size, SPRAAY_FEE_WALLET, SPRAAY_FEE_PERCENT, cli_pc,
               csv_file>>

----------------------------------------------------------------------------
(* validate_recipients(recipients) *)

InitValidate ==
    /\ op = "validate_recipients"
    /\ ListsOver(ValidateAddrsAt, 3, ValidateAmounts, MaxValidateLen)
    /\ max_size = MAX_BATCH_SIZE
    /\ DefaultFees
    /\ Fresh

CallValidate ==
    /\ op = "validate_recipients" /\ pc = "call"
    /\ is_valid' = validate_recipients(recipients).is_valid
    /\ errors' = validate_recipients(recipients).errors
    /\ pc' = "return"
    /\ UNCHANGED <<inputVars, runVars, chunks, fee_r>>

SpecValidate == InitValidate /\ [][CallValidate]_vars

(* chunk_recipients(recipients, max_size) *)

InitChunk ==
    /\ op = "chunk_recipients"
    /\ ListsOver(PositionAddrsAt, 1, ChunkAmounts, MaxPureLen)
    /\ max_size \in 1..MaxSize
    /\ DefaultFees
    /\ Fresh

CallChunk ==
    /\ op = "chunk_recipients" /\ pc = "call"
    /\ chunks' = chunk_recipients(recipients, max_size)
    /\ pc' = "return"
    /\ UNCHANGED <<inputVars, runVars, is_valid, errors, fee_r>>

SpecChunk == InitChunk /\ [][CallChunk]_vars

(* calculate_spraay_fee(recipients) *)

InitFee ==
    /\ op = "calculate_spraay_fee"
    /\ ListsOver(PositionAddrsAt, 1, FeeAmounts, MaxPureLen)
    /\ max_size = MAX_BATCH_SIZE
    /\ SPRAAY_FEE_WALLET \in FeeWallets
    /\ SPRAAY_FEE_PERCENT \in FeePercents
    /\ Fresh

CallFee ==
    /\ op = "calculate_spraay_fee" /\ pc = "call"
    /\ fee_r' = calculate_spraay_fee(recipients)
    /\ pc' = "return"
    /\ UNCHANGED <<inputVars, runVars, is_valid, errors, chunks>>

SpecFee == InitFee /\ [][CallFee]_vars

----------------------------------------------------------------------------
(* parse_recipients_csv *)

\* the header rows of the files read: the documented one, one that needs
\* strip() and lower(), one without an amount column
CsvHeaders == {<<"address", "amount">>, <<"Amount ", " ADDRESS">>, <<"address">>}
\* the cells of the data rows: empty, not a number, a number inside blanks
CsvCells == {"", "5A1", " 0.2 "}

\* str.strip and str.lower on the strings of the files
strip(s) ==
    CASE s = " 0.2 " -> "0.2" [] s = "Amount " -> "Amount" [] s = " ADDRESS" -> "ADDRESS"
      [] OTHER -> s
lower(s) == CASE s = "Amount" -> "amount" [] s = "ADDRESS" -> "address" [] OTHER -> s

\* float(amount_str) in RAO: <<>> is ValueError
float(s) == CASE s = "0.2" -> <<200000000>> [] s = "0" -> <<0>> [] OTHER -> <<>>

\* csv.DictReader skips the rows without any cell (blank lines)
DictReaderRows(rows) == SelectSeq(rows, LAMBDA row : row # <<>>)

\* normalized = {k.strip().lower(): v.strip() for k, v in row.items()}.
\* DictReader gives a row shorter than the header the value None for the
\* missing columns and a longer row the key None for the cells left over:
\* strip() of None raises AttributeError, which is <<>> here.
normalized(fieldnames, row) ==
    IF Len(row) # Len(fieldnames) THEN <<>>
    ELSE LET key(i) == lower(strip(fieldnames[i]))
         IN <<[k \in {key(i) : i \in DOMAIN fieldnames} |->
                  strip(row[CHOOSE i \in DOMAIN fieldnames :
                                /\ key(i) = k
                                /\ \A j \in DOMAIN fieldnames : j > i => key(j) # k])]>>

\* dict.get(key, default)
get(d, key, default) == IF key \in DOMAIN d THEN d[key] ELSE default

\* the rows from row_num on: the list of recipients, or the exception raised
RECURSIVE ParseRows(_, _, _, _)
ParseRows(fieldnames, rows, row_num, acc) ==
    IF rows = <<>> THEN [raised |-> FALSE, error |-> <<>>, recipients |-> acc]
    ELSE LET n == normalized(fieldnames, Head(rows))
             address == get(n[1], "address", "")
             amount_str == get(n[1], "amount", "0")
             failed(kind, pos) == [raised |-> TRUE, error |-> <<RecipientError(kind, pos)>>,
                                   recipients |-> <<>>]
         IN IF n = <<>> THEN failed("AttributeError", 0)
            ELSE IF address = "" THEN failed("missing address", row_num)
            ELSE IF float(amount_str) = <<>> THEN failed("invalid amount", row_num)
            ELSE ParseRows(fieldnames, Tail(rows), row_num + 1,
                           Append(acc, Recipient(address, float(amount_str)[1])))

\* parse_recipients_csv: a file without a header row has fieldnames None
parse_recipients_csv(file) ==
    IF file.header = <<>>
       THEN [raised |-> TRUE, error |-> <<RecipientError("no headers", 0)>>,
             recipients |-> <<>>]
       ELSE ParseRows(file.header, DictReaderRows(file.rows), 2, <<>>)

\* a file of at most MaxCsvRows rows under one of the headers, every row of at
\* most one cell more than the header; an empty file has no header
InitCsv ==
    /\ op = "parse_recipients_csv"
    /\ recipients = <<>>
    /\ max_size = MAX_BATCH_SIZE
    /\ DefaultFees
    /\ FreshState
    /\ \/ csv_file = NoFile
       \/ \E header \in CsvHeaders, k \in 0..MaxCsvRows :
              \E lens \in [1..k -> 0..(Len(header) + 1)],
                 cells \in [1..k -> [1..(Len(header) + 1) -> CsvCells]] :
                  csv_file = [header |-> header,
                              rows |-> [i \in 1..k |-> SubSeq(cells[i], 1, lens[i])]]

CallParseCsv ==
    /\ op = "parse_recipients_csv" /\ pc = "call"
    /\ LET r == parse_recipients_csv(csv_file)
       IN /\ recipients' = r.recipients
          /\ errors' = r.error
          /\ pc' = IF r.raised THEN "raised" ELSE "return"
    /\ UNCHANGED <<op, max_size, SPRAAY_FEE_WALLET, SPRAAY_FEE_PERCENT, cli_pc, csv_file,
                   runVars, is_valid, chunks, fee_r>>

SpecCsv == InitCsv /\ [][CallParseCsv]_vars

----------------------------------------------------------------------------
(* _build_batch_call and the results *)

\* Recipient.amount_rao: amounts are kept in RAO
amount_rao(r) == r.amount

\* balances.transfer_keep_alive / transfer_allow_death (dest, value)
TransferCall(r) == [dest |-> r.address, value |-> amount_rao(r)]

RECURSIVE TransferCalls(_)
TransferCalls(rs) ==
    IF rs = <<>> THEN <<>> ELSE <<TransferCall(Head(rs))>> \o TransferCalls(Tail(rs))

\* the calls of the utility.batch / batch_all call that _build_batch_call
\* composes (transfer_fn and mode are passed through and not modelled)
build_batch_call(rs, include_fee) ==
    TransferCalls(IF include_fee THEN rs \o calculate_spraay_fee(rs) ELSE rs)

\* the calls that async_batch_transfer composes inline
async_batch_call(rs) == TransferCalls(rs)

\* fee_r.amount if fee_r else 0.0
FeeAmount(fee) == IF fee = <<>> THEN 0 ELSE fee[1].amount

\* the sum of the chunks' fees (batch_transfer, estimate_fee)
RECURSIVE SumChunkFees(_)
SumChunkFees(cs) ==
    IF cs = <<>> THEN 0
    ELSE FeeAmount(calculate_spraay_fee(Head(cs))) + SumChunkFees(Tail(cs))

\* BatchResult.  message holds what the message is about, errs the validation
\* errors the message lists, batch the batch number the message cites.
\* total_fee and duration_seconds are not modelled.
BatchResult(success, message, errs, batch, block_hash, extrinsic_hash, amount, fee, count) ==
    [success |-> success, message |-> message, errors |-> errs, batch |-> batch,
     block_hash |-> block_hash, extrinsic_hash |-> extrinsic_hash,
     total_amount |-> amount, spraay_fee |-> fee, recipient_count |-> count]

\* what the chain client can do with a unit it is sent:
\* sign_and_send_extrinsic raises, it returns an unsuccessful response, it
\* returns a successful one and get_block_hash raises, or all succeed
\* (compose_call raising before the unit is sent is the outcome "build_raises")
SendOutcomes == {"send_raises", "unsuccessful", "hash_raises", "success"}

\* amounts of the recipients of a run: zero, the minimum, 0.2 TAO (two of
\* them in a chunk carry a fee, one does not)
RunAmounts == {0, MIN_TRANSFER_TAO, 200000000}
\* their addresses: well-formed and distinct, a repeat of the first, malformed
RunAddrsAt == [i \in DOMAIN Addr |-> IF i = 1 THEN <<Addr[1], BadAddress>>
                                              ELSE <<Addr[i], Addr[1]>>]

IsSync == op = "batch_transfer"

----------------------------------------------------------------------------
(* batch_transfer and async_batch_transfer *)

Init ==
    /\ op \in {"batch_transfer", "async_batch_transfer"}
    /\ ListsOver(RunAddrsAt, 2, RunAmounts, MaxRunLen)
    /\ max_size = MAX_BATCH_SIZE
    /\ DefaultFees
    /\ Fresh

IsTransfer == op \in {"batch_transfer", "async_batch_transfer"}

\* faulty variant: the wallet is unlocked before the list is validated
ValidateAfterUnlock ==
    /\ IsTransfer /\ pc = "call"
    /\ LET v == validate_recipients(recipients)
       IN /\ is_valid' = v.is_valid
          /\ errors' = v.errors
          /\ IF ~v.is_valid
                THEN /\ results' = <<BatchResult(FALSE, "validation", v.errors, 0, "", "",
                                                 0, 0, Len(recipients))>>
                     /\ pc' = "return_invalid"
                ELSE /\ results' = results
                     /\ pc' = "connect"
    /\ chain' = chain \o <<"connect", "unlock_coldkey">>
    /\ UNCHANGED <<inputVars, chunks, fee_r, balance, total_amount,
                   total_spraay_fee, chunk_idx, pending, submitted, outcomes,
                   estimateVars>>

\* validate_recipients and the early return
Validate ==
    /\ IsTransfer /\ pc = "call"
    /\ LET v == validate_recipients(recipients)
       IN /\ is_valid' = v.is_valid
          /\ errors' = v.errors
          /\ IF ~v.is_valid
                THEN /\ results' = <<BatchResult(FALSE, "validation", v.errors, 0, "", "",
                                                 0, 0, Len(recipients))>>
                     /\ pc' = "return_invalid"
                ELSE /\ results' = results
                     /\ pc' = "connect"
    /\ UNCHANGED <<inputVars, chunks, fee_r, chain, balance, total_amount,
                   total_spraay_fee, chunk_idx, pending, submitted, outcomes,
                   estimateVars>>

\* bt.Subtensor / bt.AsyncSubtensor, bt.Wallet, wallet.unlock_coldkey
Connect ==
    /\ IsTransfer /\ pc = "connect"
    /\ chain' = chain \o <<"connect", "unlock_coldkey">>
    /\ pc' = "balance"
    /\ UNCHANGED <<inputVars, is_valid, errors, chunks, fee_r, balance, total_amount,
                   total_spraay_fee, chunk_idx, pending, submitted, outcomes, results,
                   estimateVars>>

\* an exception of the chain client or the wallet outside the chunk loop
\* leaves the function
ChainRaises ==
    /\ IsTransfer /\ pc \in {"connect", "balance"}
    /\ pc' = "raised"
    /\ UNCHANGED <<inputVars, is_valid, errors, chunks, fee_r, chain, balance,
                   total_amount, total_spraay_fee, chunk_idx, pending, submitted,
                   outcomes, results, estimateVars>>

\* the balances the chain client is asked to answer with: around the totals
BalanceChoices ==
    LET t == SumAmounts(recipients)
        f == SumChunkFees(chunk_recipients(recipients, MAX_BATCH_SIZE))
    IN {t - 1, t, t + f - 1, t + f}

\* faulty variant: the amount compared with the balance leaves the service
\* fees out
CheckBalanceNoFees(b) ==
    /\ IsTransfer /\ pc = "balance"
    /\ LET total == SumAmounts(recipients)
           cs == chunk_recipients(recipients, MAX_BATCH_SIZE)
       IN /\ total_amount' = total
          /\ total_spraay_fee' = 0
          /\ balance' = b
          /\ chain' = Append(chain, "get_balance")
          /\ IF b < total
                THEN /\ results' = <<BatchResult(FALSE, "insufficient", <<>>, 0, "", "",
                                                 total, 0, Len(recipients))>>
                     /\ chunks' = IF IsSync THEN cs ELSE chunks
                     /\ pc' = "return_insufficient"
                ELSE /\ results' = <<>>
                     /\ chunks' = cs
                     /\ pc' = "loop"
    /\ chunk_idx' = 0
    /\ UNCHANGED <<inputVars, is_valid, errors, fee_r, pending, submitted, outcomes,
                   estimateVars>>

\* the totals, get_balance and the balance check
CheckBalance(b) ==
    /\ IsTransfer /\ pc = "balance"
    /\ LET total == SumAmounts(recipients)
           cs == chunk_recipients(recipients, MAX_BATCH_SIZE)
           fees == IF IsSync THEN SumChunkFees(cs) ELSE 0
           required == total + fees
       IN /\ total_amount' = total
          /\ total_spraay_fee' = fees
          /\ balance' = b
          /\ chain' = Append(chain, "get_balance")
          /\ IF b < required
                THEN /\ results' = <<BatchResult(FALSE, "insufficient", <<>>, 0, "", "",
                                                 total, fees, Len(recipients))>>
                     /\ chunks' = IF IsSync THEN cs ELSE chunks
                     /\ pc' = "return_insufficient"
                ELSE /\ results' = <<>>
                     /\ chunks' = cs
                     /\ pc' = "loop"
    /\ chunk_idx' = 0
    /\ UNCHANGED <<inputVars, is_valid, errors, fee_r, pending, submitted, outcomes,
                   estimateVars>>

\* faulty variant: every result reports the amount and the service fee of
\* the whole run
ChunkResultRunTotals(k, outcome) ==
    LET chunk == chunks[k + 1]
        fee == total_spraay_fee
        amount == total_amount
    IN IF outcome = "success"
          THEN BatchResult(TRUE, "completed", <<>>, k + 1, "block",
                           IF IsSync THEN "extrinsic" ELSE "", amount, fee, Len(chunk))
       ELSE IF outcome = "unsuccessful"
          THEN BatchResult(FALSE, "failed", <<>>, k + 1, "", "", amount, fee, Len(chunk))
       ELSE BatchResult(FALSE, "exception", <<>>, k + 1, "", "", amount, fee, Len(chunk))

\* the BatchResult of chunk number k (0-based) for an outcome
ChunkResult(k, outcome) ==
    LET chunk == chunks[k + 1]
        fee == IF IsSync THEN FeeAmount(calculate_spraay_fee(chunk)) ELSE 0
        amount == SumAmounts(chunk)
    IN IF outcome = "success"
          THEN BatchResult(TRUE, "completed", <<>>, k + 1, "block",
                           IF IsSync THEN "extrinsic" ELSE "", amount, fee, Len(chunk))
       ELSE IF outcome = "unsuccessful"
          THEN BatchResult(FALSE, "failed", <<>>, k + 1, "", "", amount, fee, Len(chunk))
       ELSE BatchResult(FALSE, "exception", <<>>, k + 1, "", "", amount, fee, Len(chunk))

\* faulty variant: only the last chunk of the run carries a service fee
UnitOfLastOnly(chunk) ==
    IF IsSync THEN build_batch_call(chunk, chunk = chunks[Len(chunks)])
    ELSE async_batch_call(chunk)

\* the calls of the submission unit of a chunk
UnitOf(chunk) == IF IsSync THEN build_batch_call(chunk, TRUE) ELSE async_batch_call(chunk)

\* one iteration up to the exception of compose_call: the except clause
\* appends the result and the loop goes on
BuildRaises ==
    /\ IsTransfer /\ pc = "loop" /\ chunk_idx < Len(chunks)
    /\ chain' = Append(chain, "compose_call")
    /\ outcomes' = Append(outcomes, "build_raises")
    /\ results' = Append(results, ChunkResult(chunk_idx, "build_raises"))
    /\ chunk_idx' = chunk_idx + 1
    /\ pc' = "loop"
    /\ UNCHANGED <<inputVars, is_valid, errors, chunks, fee_r, balance, total_amount,
                   total_spraay_fee, pending, submitted, estimateVars>>

\* faulty variant: the submission is sent and the loop does not wait for it
SubmitNoWait ==
    /\ IsTransfer /\ pc = "loop" /\ chunk_idx < Len(chunks)
    /\ chain' = chain \o <<"compose_call", "sign_and_send_extrinsic">>
    /\ submitted' = Append(submitted, [batch |-> chunk_idx + 1,
                                     calls |-> UnitOf(chunks[chunk_idx + 1])])
    /\ pending' = pending \cup {chunk_idx}
    /\ chunk_idx' = chunk_idx + 1
    /\ pc' = "loop"
    /\ results' = results
    /\ UNCHANGED <<inputVars, is_valid, errors, chunks, fee_r, balance, total_amount,
                   total_spraay_fee, outcomes, estimateVars>>

\* one iteration up to the call of sign_and_send_extrinsic, which blocks
Submit ==
    /\ IsTransfer /\ pc = "loop" /\ chunk_idx < Len(chunks)
    /\ chain' = chain \o <<"compose_call", "sign_and_send_extrinsic">>
    /\ submitted' = Append(submitted, [batch |-> chunk_idx + 1,
                                     calls |-> UnitOf(chunks[chunk_idx + 1])])
    /\ pending' = pending \cup {chunk_idx}
    /\ pc' = "await"
    /\ UNCHANGED <<inputVars, is_valid, errors, chunks, fee_r, balance, total_amount,
                   total_spraay_fee, chunk_idx, outcomes, results, estimateVars>>

\* faulty variant: an exception ends the loop
RespondAbort(outcome) ==
    /\ IsTransfer /\ pc = "await" /\ chunk_idx \in pending
    /\ chain' = IF outcome \in {"success", "hash_raises"}
                   THEN Append(chain, "get_block_hash") ELSE chain
    /\ pending' = pending \ {chunk_idx}
    /\ outcomes' = Append(outcomes, outcome)
    /\ results' = Append(results, ChunkResult(chunk_idx, outcome))
    /\ chunk_idx' = chunk_idx + 1
    /\ pc' = IF outcome \in {"send_raises", "hash_raises"} THEN "return" ELSE "loop"
    /\ UNCHANGED <<inputVars, is_valid, errors, chunks, fee_r, balance, total_amount,
                   total_spraay_fee, submitted, estimateVars>>

\* sign_and_send_extrinsic returns or raises, get_block_hash after a
\* successful response returns or raises; the result is appended
Respond(outcome) ==
    /\ IsTransfer /\ pc = "await" /\ chunk_idx \in pending
    /\ chain' = IF outcome \in {"success", "hash_raises"}
                   THEN Append(chain, "get_block_hash") ELSE chain
    /\ pending' = pending \ {chunk_idx}
    /\ outcomes' = Append(outcomes, outcome)
    /\ results' = Append(results, ChunkResult(chunk_idx, outcome))
    /\ chunk_idx' = chunk_idx + 1
    /\ pc' = "loop"
    /\ UNCHANGED <<inputVars, is_valid, errors, chunks, fee_r, balance, total_amount,
                   total_spraay_fee, submitted, estimateVars>>

\* the loop is over: return results
Finish ==
    /\ IsTransfer /\ pc = "loop" /\ chunk_idx = Len(chunks)
    /\ pc' = "return"
    /\ UNCHANGED <<inputVars, is_valid, errors, chunks, fee_r, chain, balance,
                   total_amount, total_spraay_fee, chunk_idx, pending, submitted,
                   outcomes, results, estimateVars>>

Next ==
    \/ Validate
    \/ Connect
    \/ ChainRaises
    \/ \E b \in BalanceChoices : CheckBalance(b)
    \/ BuildRaises
    \/ Submit
    \/ \E outcome \in SendOutcomes : Respond(outcome)
    \/ Finish

Spec == Init /\ [][Next]_vars

----------------------------------------------------------------------------
(* estimate_fee *)

FeeEstimate(net_fee, fee, amount, cost, count, batches, sufficient, current) ==
    [estimated_fee |-> net_fee, spraay_fee |-> fee,
     total_amount |-> amount, total_cost |-> cost,
     recipient_count |-> count, batch_count |-> batches,
     balance_sufficient |-> sufficient, current_balance |-> current]

\* partial_fee values of get_payment_info, in RAO
PartialFees == {125000}

InitEstimate ==
    /\ op = "estimate_fee"
    /\ ListsOver(RunAddrsAt, 2, RunAmounts, MaxRunLen)
    /\ max_size = MAX_BATCH_SIZE
    /\ DefaultFees
    /\ Fresh

\* the totals and the sample call of the first chunk; chunks[0] of an empty
\* list raises IndexError
EstimateSample ==
    /\ op = "estimate_fee" /\ pc = "call"
    /\ LET cs == chunk_recipients(recipients, MAX_BATCH_SIZE)
       IN /\ total_amount' = SumAmounts(recipients)
          /\ chunks' = cs
          /\ total_spraay_fee' = SumChunkFees(cs)
          /\ IF cs = <<>>
                THEN /\ sample_call' = sample_call
                     /\ chain' = Append(chain, "connect")
                     /\ pc' = "raised"
                ELSE /\ sample_call' = <<build_batch_call(cs[1], TRUE)>>
                     /\ chain' = chain \o <<"connect", "compose_call">>
                     /\ pc' = "payment_info"
    /\ UNCHANGED <<inputVars, is_valid, errors, fee_r, balance, chunk_idx, pending,
                   submitted, outcomes, results, fee_info, estimate>>

\* get_payment_info answers with fee information or with nothing
EstimatePaymentInfo(info) ==
    /\ op = "estimate_fee" /\ pc = "payment_info"
    /\ fee_info' = info
    /\ chain' = Append(chain, "get_payment_info")
    /\ pc' = "get_balance"
    /\ UNCHANGED <<inputVars, is_valid, errors, chunks, fee_r, balance, total_amount,
                   total_spraay_fee, chunk_idx, pending, submitted, outcomes, results,
                   sample_call, estimate>>

\* get_payment_info or get_balance raises: the exception leaves estimate_fee
EstimateRaises ==
    /\ op = "estimate_fee" /\ pc \in {"payment_info", "get_balance"}
    /\ chain' = Append(chain, IF pc = "payment_info" THEN "get_payment_info"
                                                      ELSE "get_balance")
    /\ pc' = "raised"
    /\ UNCHANGED <<inputVars, is_valid, errors, chunks, fee_r, balance, total_amount,
                   total_spraay_fee, chunk_idx, pending, submitted, outcomes, results,
                   estimateVars>>

\* fee_per_batch = Balance.from_rao(fee_info["partial_fee"]).tao if fee_info else 0.001
FeePerBatch(info) == IF info # <<>> THEN info[1] ELSE FallbackFeePerBatch

\* the balances the chain client is asked to answer with: around the total cost
EstimateBalanceChoices ==
    LET cost == total_amount + FeePerBatch(fee_info) * Len(chunks) + total_spraay_fee
    IN {0, cost - 1, cost}

\* the network fee, get_balance and the FeeEstimate returned
EstimateReturn(b) ==
    /\ op = "estimate_fee" /\ pc = "get_balance"
    /\ LET total_network_fee == FeePerBatch(fee_info) * Len(chunks)
           total_cost == total_amount + total_network_fee + total_spraay_fee
       IN estimate' = <<FeeEstimate(total_network_fee, total_spraay_fee, total_amount,
                                    total_cost, Len(recipients), Len(chunks),
                                    b >= total_cost, b)>>
    /\ balance' = b
    /\ chain' = Append(chain, "get_balance")
    /\ pc' = "return"
    /\ UNCHANGED <<inputVars, is_valid, errors, chunks, fee_r, total_amount,
                   total_spraay_fee, chunk_idx, pending, submitted, outcomes, results,
                   sample_call, fee_info>>

NextEstimate ==
    \/ EstimateSample
    \/ \E info \in {<<>>} \cup {<<p>> : p \in PartialFees} : EstimatePaymentInfo(info)
    \/ EstimateRaises
    \/ \E b \in EstimateBalanceChoices : EstimateReturn(b)

SpecEstimate == InitEstimate /\ [][NextEstimate]_vars

----------------------------------------------------------------------------
(* cmd_transfer (src/cli.py) *)

\* the recipients cmd_transfer has parsed from args.file
InitCli ==
    /\ op = "cmd_transfer"
    /\ ListsOver(RunAddrsAt, 2, RunAmounts, MaxRunLen)
    /\ max_size = MAX_BATCH_SIZE
    /\ DefaultFees
    /\ Fresh

cliVars == <<recipients, max_size, SPRAAY_FEE_WALLET, SPRAAY_FEE_PERCENT, csv_file>>

\* validate_recipients; on errors return 1, else print the total and the
\* service fee of calculate_spraay_fee(recipients)
CliValidate ==
    /\ op = "cmd_transfer" /\ cli_pc = ""
    /\ LET v == validate_recipients(recipients)
       IN /\ is_valid' = v.is_valid
          /\ errors' = v.errors
          /\ IF ~v.is_valid
                THEN /\ fee_r' = fee_r
                     /\ cli_pc' = "return_1"
                ELSE /\ fee_r' = calculate_spraay_fee(recipients)
                     /\ cli_pc' = "confirm"
    /\ UNCHANGED <<op, pc, cliVars, runVars, chunks>>

\* args.dry_run: estimate_fee is called
CliDryRun ==
    /\ op = "cmd_transfer" /\ cli_pc = "confirm"
    /\ op' = "estimate_fee"
    /\ cli_pc' = "dry_run"
    /\ UNCHANGED <<pc, cliVars, is_valid, errors, chunks, fee_r, runVars>>

\* estimate_fee has returned (return 0) or raised (return 1)
CliDryRunDone ==
    /\ cli_pc = "dry_run" /\ pc \in {"return", "raised"}
    /\ cli_pc' = IF pc = "return" THEN "return_0" ELSE "return_1"
    /\ UNCHANGED <<op, pc, cliVars, is_valid, errors, chunks, fee_r, runVars>>

\* the user does not answer y or yes: "Aborted.", return 0
CliDecline ==
    /\ op = "cmd_transfer" /\ cli_pc = "confirm"
    /\ cli_pc' = "return_0"
    /\ UNCHANGED <<op, pc, cliVars, is_valid, errors, chunks, fee_r, runVars>>

\* args.yes or the user confirms: batch_transfer is called
CliExecute ==
    /\ op = "cmd_transfer" /\ cli_pc = "confirm"
    /\ op' = "batch_transfer"
    /\ cli_pc' = "execute"
    /\ UNCHANGED <<pc, cliVars, is_valid, errors, chunks, fee_r, runVars>>

\* batch_transfer has returned: the results are printed, return 0 if all
\* succeeded, else 1
CliReport ==
    /\ cli_pc = "execute" /\ pc \in {"return", "return_invalid", "return_insufficient"}
    /\ cli_pc' = IF \A k \in DOMAIN results : results[k].success
                    THEN "return_0" ELSE "return_1"
    /\ UNCHANGED <<op, pc, cliVars, is_valid, errors, chunks, fee_r, runVars>>

\* an exception of batch_transfer leaves cmd_transfer
CliRaised ==
    /\ cli_pc = "execute" /\ pc = "raised"
    /\ cli_pc' = "raised"
    /\ UNCHANGED <<op, pc, cliVars, is_valid, errors, chunks, fee_r, runVars>>

NextCli ==
    \/ CliValidate
    \/ CliDryRun
    \/ CliDryRunDone
    \/ CliDecline
    \/ CliExecute
    \/ CliReport
    \/ CliRaised
    \/ Validate
    \/ Connect
    \/ ChainRaises
    \/ \E b \in BalanceChoices : CheckBalance(b)
    \/ BuildRaises
    \/ Submit
    \/ \E outcome \in SendOutcomes : Respond(outcome)
    \/ Finish
    \/ EstimateSample
    \/ \E info \in {<<>>} \cup {<<p>> : p \in PartialFees} : EstimatePaymentInfo(info)
    \/ EstimateRaises
    \/ \E b \in EstimateBalanceChoices : EstimateReturn(b)

SpecCli == InitCli /\ [][NextCli]_vars

\* f"{spraay_fee.amount:.6f}": the amount printed with six decimal places
DisplayUnit == 1000
FormatSixDecimals(rao) ==
    LET q == rao \div DisplayUnit
        r == rao % DisplayUnit
    IN IF 2 * r > DisplayUnit \/ (2 * r = DisplayUnit /\ q % 2 = 1) THEN q + 1 ELSE q

\* fee_display: what cmd_transfer prints for a fee, in units of 0.000001 TAO
\* (nothing is printed when there is no fee)
fee_display(spraay_fee) ==
    IF spraay_fee = <<>> THEN <<>> ELSE <<FormatSixDecimals(spraay_fee[1].amount)>>

----------------------------------------------------------------------------
(* Properties of the pure functions *)

RECURSIVE Concat(_)
Concat(ss) == IF ss = <<>> THEN <<>> ELSE Head(ss) \o Concat(Tail(ss))

MinOf(S) == CHOOSE x \in S : \A y \in S : x <= y

Returned(f) == op = f /\ pc = "return"

\* C5: chunk_recipients returns ceil(len / max_size) chunks, each of 1 to
\* max_size recipients; recipient i (0-based) is entry i mod max_size of chunk
\* floor(i / max_size); the chunks concatenated are the list.
C5_ChunkPartition ==
    Returned("chunk_recipients") =>
        LET n == Len(recipients)
        IN /\ Len(chunks) = (n + max_size - 1) \div max_size
           /\ \A k \in DOMAIN chunks :
                  Len(chunks[k]) >= 1 /\ Len(chunks[k]) <= max_size
           /\ \A i \in 0..(n - 1) :
                  /\ (i \div max_size) + 1 \in DOMAIN chunks
                  /\ (i % max_size) + 1 \in DOMAIN chunks[(i \div max_size) + 1]
                  /\ chunks[(i \div max_size) + 1][(i % max_size) + 1] = recipients[i + 1]
           /\ Concat(chunks) = recipients

\* a list of several chunks whose last chunk is not full has been split
C5_Witness ==
    /\ Returned("chunk_recipients")
    /\ Len(chunks) >= 2
    /\ Len(chunks[Len(chunks)]) < max_size

FeesEnabled == SPRAAY_FEE_WALLET # "" /\ SPRAAY_FEE_PERCENT > 0

\* the least total whose unrounded fee reaches the minimum fee
LeastTotalWithFee ==
    (SPRAAY_MIN_FEE_TAO * PercentScale + SPRAAY_FEE_PERCENT - 1) \div SPRAAY_FEE_PERCENT

\* 1000 * fee - total * percent, in thousandths of a RAO
FeeError(fee, total) ==
    PercentScale * (fee - (total \div PercentScale) * SPRAAY_FEE_PERCENT)
        - (total % PercentScale) * SPRAAY_FEE_PERCENT

\* C6 as stated: the fee is round(T * percent / 100, 9) when that rounded value
\* is at least the minimum fee, and there is no fee otherwise, nor when the
\* wallet is unset or the percent is not positive.
C6_FeeOfRoundedValue ==
    Returned("calculate_spraay_fee") /\ recipients # <<>> =>
        LET T == SumAmounts(recipients)
            rounded == Round9(FeeWhole(T, SPRAAY_FEE_PERCENT),
                              FeeThousandths(T, SPRAAY_FEE_PERCENT))
        IN IF FeesEnabled /\ rounded >= SPRAAY_MIN_FEE_TAO
              THEN fee_r = <<Recipient(SPRAAY_FEE_WALLET, rounded)>>
              ELSE fee_r = <<>>

\* C6 amended: the fee is T * percent / 100 rounded to the nearest RAO when the
\* unrounded value T * percent / 100 is at least the minimum fee, and there is
\* no fee otherwise, nor when the wallet is unset or the percent is not positive.
C6_FeeOfUnroundedValue ==
    Returned("calculate_spraay_fee") =>
        LET T == SumAmounts(recipients)
        IN IF FeesEnabled /\ T >= LeastTotalWithFee
              THEN /\ Len(fee_r) = 1
                   /\ fee_r[1].address = SPRAAY_FEE_WALLET
                   /\ 2 * FeeError(fee_r[1].amount, T) <= PercentScale
                   /\ 2 * FeeError(fee_r[1].amount, T) >= 0 - PercentScale
              ELSE fee_r = <<>>

\* a total whose fee rounds up to a whole RAO above the minimum fee
C6_Witness ==
    /\ Returned("calculate_spraay_fee")
    /\ FeesEnabled
    /\ fee_r # <<>>
    /\ FeeError(fee_r[1].amount, SumAmounts(recipients)) > 0

DuplicateErrorsAt(i) ==
    {k \in DOMAIN errors : errors[k].kind = "duplicate" /\ errors[k].pos = i}
EarlierOccurrences(i) ==
    {j \in 1..(i - 1) : recipients[j].address = recipients[i].address}

\* C7: one duplicate error for each occurrence of an address after its first,
\* citing the position of the first occurrence and the position of the repeat.
C7_DuplicateCitesFirst ==
    Returned("validate_recipients") =>
        \A i \in DOMAIN recipients :
            IF EarlierOccurrences(i) = {}
               THEN DuplicateErrorsAt(i) = {}
               ELSE /\ Cardinality(DuplicateErrorsAt(i)) = 1
                    /\ \A k \in DuplicateErrorsAt(i) :
                           errors[k].prev = MinOf(EarlierOccurrences(i))

WellFormed(r) ==
    /\ is_valid_bittensor_address_or_public_key(r.address)
    /\ r.amount > 0
    /\ r.amount >= MIN_TRANSFER_TAO

----------------------------------------------------------------------------
(* Properties of the runs *)

\* the number of chunks of the run's list, and its chunk number k (1-based)
NumChunks == (Len(recipients) + MAX_BATCH_SIZE - 1) \div MAX_BATCH_SIZE
ChunkNo(k) == SubSeq(recipients, (k - 1) * MAX_BATCH_SIZE + 1,
                     Min(k * MAX_BATCH_SIZE, Len(recipients)))

\* the sum of the service fees of all chunks of the run's list
ServiceFees == SumChunkFees([k \in 1..NumChunks |-> ChunkNo(k)])

\* the batch numbers of the units submitted so far
SubmittedBatches == {submitted[j].batch : j \in DOMAIN submitted}

\* C1: a run that passed validation and the balance check returns one
\* BatchResult per chunk; result k is failed exactly when the submission of
\* chunk k raised (composing the call, sign_and_send_extrinsic, or
\* get_block_hash after it) or was unsuccessful; every chunk is attempted, and
\* every chunk whose call could be composed is submitted, whatever came before.
C1_FailureIsolation ==
    IsTransfer /\ pc = "return" =>
        /\ Len(results) = NumChunks
        /\ Len(outcomes) = NumChunks
        /\ \A k \in DOMAIN results :
               /\ results[k].batch = k
               /\ results[k].success <=> outcomes[k] = "success"
        /\ SubmittedBatches = {k \in 1..NumChunks : outcomes[k] # "build_raises"}
        /\ Len(submitted) = Cardinality(SubmittedBatches)

\* three chunks, the second of which raised, and the other two succeeded
C1_Witness ==
    /\ op = "batch_transfer" /\ pc = "return"
    /\ Len(results) = 3
    /\ outcomes[2] = "send_raises"
    /\ results[1].success /\ ~results[2].success /\ results[3].success

\* C2: when the balance is less than the transfer amounts plus the service
\* fees of all chunks, the run returns exactly one failed BatchResult about the
\* shortfall and nothing is ever submitted.
C2_InsufficientBalanceAborts ==
    /\ IsTransfer
    /\ pc \in {"loop", "await", "return", "return_insufficient"}
    /\ balance < SumAmounts(recipients) + ServiceFees
    => /\ pc = "return_insufficient"
       /\ submitted = <<>>
       /\ pending = {}
       /\ Len(results) = 1
       /\ ~results[1].success
       /\ results[1].message = "insufficient"

\* C3: when validate_recipients reports an error, the run returns exactly one
\* failed BatchResult whose message holds every validation error, and the
\* chain client and the wallet are never touched.
C3_InvalidListAborts ==
    LET reported == validate_recipients(recipients).errors
    IN IsTransfer /\ reported # <<>> =>
           /\ pc \in {"call", "return_invalid"}
           /\ chain = <<>>
           /\ submitted = <<>>
           /\ pending = {}
           /\ pc = "return_invalid" =>
                 /\ Len(results) = 1
                 /\ ~results[1].success
                 /\ results[1].message = "validation"
                 /\ \A k \in DOMAIN reported :
                        \E j \in DOMAIN results[1].errors :
                            results[1].errors[j] = reported[k]

\* a list with several validation errors has been refused
C3_Witness ==
    /\ IsTransfer /\ pc = "return_invalid"
    /\ Len(results) = 1
    /\ Len(results[1].errors) >= 3

\* C4: at most one submission is in flight; the submission of chunk k is in
\* flight only when the results of the k - 1 chunks before it have been
\* appended; the k-th BatchResult has the recipient count and the amount of
\* the k-th chunk.
C4_Sequential ==
    IsTransfer /\ pc \in {"loop", "await", "return"} =>
        /\ Cardinality(pending) <= 1
        /\ \A k \in pending : Len(results) = k /\ Len(submitted) >= 1
                               /\ submitted[Len(submitted)].batch = k + 1
        /\ \A j \in DOMAIN submitted : submitted[j].batch <= Len(results) + 1
        /\ \A j, i \in DOMAIN submitted : j < i => submitted[j].batch < submitted[i].batch
        /\ \A k \in DOMAIN results :
               /\ results[k].recipient_count = Len(ChunkNo(k))
               /\ results[k].total_amount = SumAmounts(ChunkNo(k))

\* the third chunk is in flight after the results of the first two
C4_Witness ==
    /\ IsTransfer /\ pc = "await"
    /\ pending = {2}
    /\ Len(results) = 2

\* C9: a returned FeeEstimate has chunk_count = the number of chunks,
\* service_fee = the sum of the chunks' fees, estimated_network_fee = the chain
\* client's fee projection times chunk_count, total_cost = the sum of the
\* three, and balance_sufficient exactly when current_balance >= total_cost.
C9_EstimateArithmetic ==
    op = "estimate_fee" /\ pc = "return" =>
        /\ Len(estimate) = 1
        /\ estimate[1].batch_count = NumChunks
        /\ estimate[1].spraay_fee = ServiceFees
        /\ estimate[1].total_amount = SumAmounts(recipients)
        /\ fee_info # <<>>
        /\ estimate[1].estimated_fee = fee_info[1] * NumChunks
        /\ estimate[1].total_cost = estimate[1].total_amount
               + estimate[1].estimated_fee + estimate[1].spraay_fee
        /\ estimate[1].balance_sufficient <=>
               estimate[1].current_balance >= estimate[1].total_cost

\* C10: every submitted unit is the chunk's transfers in chunk order followed
\* by the fee transfer exactly when calculate_spraay_fee of the chunk yields a
\* fee, once, so that no unit holds more than max_chunk_size + 1 transfers.
C10_FeePlacement ==
    IsTransfer =>
        \A j \in DOMAIN submitted :
            LET chunk == ChunkNo(submitted[j].batch)
                fee == calculate_spraay_fee(chunk)
            IN /\ submitted[j].calls = TransferCalls(chunk) \o TransferCalls(fee)
               /\ Len(submitted[j].calls) <= MAX_BATCH_SIZE + 1

\* C11 as stated: in a run of batch_transfer the units of the chunks before
\* the last carry the user transfers only, and the unit of the last chunk
\* carries the fee transfer unless fees are disabled or below the threshold.
C11_FeeOnLastChunkOnly ==
    op = "batch_transfer" =>
        \A j \in DOMAIN submitted :
            LET chunk == ChunkNo(submitted[j].batch)
            IN IF submitted[j].batch < NumChunks
                  THEN submitted[j].calls = TransferCalls(chunk)
                  ELSE submitted[j].calls =
                           TransferCalls(chunk) \o TransferCalls(calculate_spraay_fee(chunk))

\* C11 amended: in a run of batch_transfer the unit of every chunk, the last
\* or not, carries after the chunk's transfers the fee transfer computed from
\* that chunk alone, unless fees are disabled or that chunk's fee is below the
\* threshold; a chunk before the last carries a fee whenever its own fee
\* reaches the threshold.
C11_FeeOnEveryChunk ==
    op = "batch_transfer" =>
        \A j \in DOMAIN submitted :
            LET chunk == ChunkNo(submitted[j].batch)
                fee == calculate_spraay_fee(chunk)
                calls == submitted[j].calls
            IN /\ SubSeq(calls, 1, Len(chunk)) = TransferCalls(chunk)
               /\ Len(calls) = Len(chunk) + Len(fee)
               /\ fee # <<>> =>
                      calls[Len(calls)] = [dest |-> SPRAAY_FEE_WALLET, value |-> fee[1].amount]
               /\ FeesEnabled /\ FeeWhole(SumAmounts(chunk), SPRAAY_FEE_PERCENT)
                                     >= SPRAAY_MIN_FEE_TAO
                      => fee # <<>>

\* a chunk before the last has been submitted with a fee transfer, and the
\* last chunk without one
C11_Witness ==
    /\ op = "batch_transfer" /\ pc = "return"
    /\ NumChunks >= 2
    /\ \E j, i \in DOMAIN submitted :
           /\ submitted[j].batch < NumChunks
           /\ Len(submitted[j].calls) = Len(ChunkNo(submitted[j].batch)) + 1
           /\ submitted[j].calls[Len(submitted[j].calls)].dest = SPRAAY_FEE_WALLET
           /\ submitted[i].batch = NumChunks
           /\ Len(submitted[i].calls) = Len(ChunkNo(NumChunks))

----------------------------------------------------------------------------
(* Properties of estimate_fee *)

\* C12: when get_payment_info raises or yields no fee information,
\* estimate_fee ends with an error and returns no FeeEstimate: a FeeEstimate is
\* returned only from the fee information the chain client gave, never from a
\* substituted network fee.
C12_EstimationFailureSurfaces ==
    op = "estimate_fee" =>
        /\ pc = "raised" => estimate = <<>>
        /\ pc = "return" => fee_info # <<>>
        /\ estimate # <<>> =>
               /\ fee_info # <<>>
               /\ estimate[1].estimated_fee = fee_info[1] * Len(chunks)

----------------------------------------------------------------------------
(* batch_transfer against async_batch_transfer *)

\* what batch_transfer does with the run's list, balance and chain outcomes:
\* it aborts exactly when the balance is below the transfers plus the service
\* fees, every unit is the one _build_batch_call composes, and every result
\* has the chunk's success flag, amount, service fee and recipient count
MatchesBatchTransfer ==
    /\ pc \in {"loop", "await", "return", "return_insufficient"} =>
           /\ pc = "return_insufficient" <=>
                  balance < SumAmounts(recipients) + ServiceFees
           /\ pc = "return_insufficient" =>
                  /\ results[1].total_amount = SumAmounts(recipients)
                  /\ results[1].spraay_fee = ServiceFees
    /\ \A j \in DOMAIN submitted :
           submitted[j].calls = build_batch_call(ChunkNo(submitted[j].batch), TRUE)
    /\ pc \in {"loop", "await", "return"} =>
           \A k \in DOMAIN results :
               /\ results[k].success <=> outcomes[k] = "success"
               /\ results[k].total_amount = SumAmounts(ChunkNo(k))
               /\ results[k].spraay_fee = FeeAmount(calculate_spraay_fee(ChunkNo(k)))
               /\ results[k].recipient_count = Len(ChunkNo(k))

\* C13: async_batch_transfer behaves as batch_transfer does on the same list,
\* balance and chain outcomes: same pre-flight abort (same required balance),
\* same units (fee transfer included), same success flags, amounts, service
\* fees and recipient counts in the results.
C13_AsyncSameAsSync == op = "async_batch_transfer" => MatchesBatchTransfer

----------------------------------------------------------------------------
(* The service fee shown and the service fee charged *)

RECURSIVE SumValues(_)
SumValues(calls) == IF calls = <<>> THEN 0 ELSE Head(calls).value + SumValues(Tail(calls))

\* the value of the transfers a unit carries after its chunk's user transfers
UnitFee(u) == SumValues(SubSeq(u.calls, Len(ChunkNo(u.batch)) + 1, Len(u.calls)))

RECURSIVE SumUnitFees(_)
SumUnitFees(units) == IF units = <<>> THEN 0 ELSE UnitFee(Head(units)) + SumUnitFees(Tail(units))

\* C14: when cmd_transfer has run batch_transfer and every chunk's unit has
\* been submitted, the service fee that cmd_transfer printed before the
\* confirmation (calculate_spraay_fee of the whole list, six decimal places) is
\* the sum, printed the same way, of the fee transfers in the submitted units.
C14_ShownFeeIsChargedFee ==
    /\ cli_pc \in {"execute", "return_0", "return_1"}
    /\ op = "batch_transfer" /\ pc = "return"
    /\ Len(submitted) = NumChunks
    => fee_display(fee_r) =
           IF SumUnitFees(submitted) = 0 THEN <<>>
           ELSE <<FormatSixDecimals(SumUnitFees(submitted))>>

----------------------------------------------------------------------------
(* Properties of parse_recipients_csv *)

\* the cell a data row supplies for a column, stripped: <<>> when the header
\* has no such column or the row ends before it
CellOf(row, column) ==
    LET at == {i \in DOMAIN csv_file.header : lower(strip(csv_file.header[i])) = column}
    IN IF at = {} \/ MinOf(at \cup {Len(row) + 1}) > Len(row) THEN <<>>
       ELSE <<strip(row[MinOf(at)])>>

\* a data row without a non-empty address or without a numeric amount
MalformedRow(row) ==
    \/ CellOf(row, "address") \in {<<>>, <<"">>}
    \/ CellOf(row, "amount") = <<>>
    \/ float(CellOf(row, "amount")[1]) = <<>>

\* C15: parse_recipients_csv fails with an error that names the first data row
\* (the header is row 1) that has no non-empty address or supplies no numeric
\* amount, a row or a file without any amount value included, and returns no
\* list then; otherwise it returns the rows' recipients in file order.
C15_RowIndexedErrors ==
    op = "parse_recipients_csv" /\ pc # "call" /\ csv_file.header # <<>> =>
        LET data == DictReaderRows(csv_file.rows)
            bad == {i \in DOMAIN data : MalformedRow(data[i])}
        IN IF bad # {}
              THEN /\ pc = "raised"
                   /\ recipients = <<>>
                   /\ Len(errors) = 1
                   /\ errors[1].kind \in {"missing address", "invalid amount"}
                   /\ errors[1].pos = MinOf(bad) + 1
              ELSE /\ pc = "return"
                   /\ recipients = [i \in DOMAIN data |->
                          Recipient(CellOf(data[i], "address")[1],
                                    float(CellOf(data[i], "amount")[1])[1])]

----------------------------------------------------------------------------
(* Properties of the balance check and the accounting of a run *)

\* C16: batch_transfer submits a chunk only when the balance covers the
\* transfers, the service fees and the network fees of the run's units: a run
\* whose balance is below that sum is aborted before anything is submitted,
\* also when the balance covers the transfers and the service fees.
C16_BalanceCoversNetworkFees ==
    /\ op = "batch_transfer"
    /\ pc \in {"loop", "await", "return", "return_insufficient"}
    => \A network_fee \in PartialFees :
           balance < SumAmounts(recipients) + ServiceFees + network_fee * NumChunks
               => /\ pc = "return_insufficient"
                  /\ submitted = <<>>
                  /\ pending = {}

\* the amount the run compared with the balance
RequiredBalance == total_amount + total_spraay_fee

\* the value of all transfers, user and fee, in the units submitted so far
RECURSIVE SumUnits(_)
SumUnits(units) ==
    IF units = <<>> THEN 0 ELSE SumValues(Head(units).calls) + SumUnits(Tail(units))

\* C17 as stated: in a run that passed pre-flight the value of the transfers
\* in the units submitted so far never exceeds the amount compared with the
\* balance, and equals it when the run completes.
C17_SubmittedEqualsRequired ==
    IsTransfer /\ pc \in {"loop", "await", "return"} =>
        /\ SumUnits(submitted) <= RequiredBalance
        /\ pc = "return" => SumUnits(submitted) = RequiredBalance

\* C17 amended: the value submitted so far never exceeds the amount compared
\* with the balance; when the run completes it equals that amount if the unit
\* of every chunk was submitted, and it falls short of it by the transfers and
\* fees of the chunks whose call could not be composed.
C17_SubmittedWithinRequired ==
    IsTransfer /\ pc \in {"loop", "await", "return"} =>
        /\ SumUnits(submitted) <= RequiredBalance
        /\ pc = "return" /\ Len(submitted) = NumChunks =>
               SumUnits(submitted) = RequiredBalance
        /\ pc = "return" /\ Len(submitted) < NumChunks =>
               /\ \E k \in DOMAIN outcomes : outcomes[k] = "build_raises"
               /\ SumUnits(submitted) < RequiredBalance

\* a run of three chunks with service fees has completed with every unit
\* submitted
C17_Witness ==
    /\ op = "batch_transfer" /\ pc = "return"
    /\ NumChunks = 3
    /\ Len(submitted) = NumChunks
    /\ total_spraay_fee > 0
    /\ SumUnits(submitted) = total_amount + total_spraay_fee

RECURSIVE SumField(_, _)
SumField(rs, field) == IF rs = <<>> THEN 0 ELSE Head(rs)[field] + SumField(Tail(rs), field)

\* the units submitted for batch number k
UnitsOfBatch(k) == {j \in DOMAIN submitted : submitted[j].batch = k}

\* C18: when a run that passed pre-flight has completed, whichever chunks
\* failed, the results' recipient counts add up to the length of the list and
\* their amounts to the total transfer amount; the service fee of every result
\* is the fee transfer placed in the unit built for its chunk, which is the
\* fee transfer in the unit submitted for it if one was (0 when the unit
\* carries none); a failed result has no block and no extrinsic reference.
C18_ResultAccounting ==
    IsTransfer /\ pc = "return" =>
        /\ SumField(results, "recipient_count") = Len(recipients)
        /\ SumField(results, "total_amount") = SumAmounts(recipients)
        /\ SumField(results, "total_amount") = total_amount
        /\ \A k \in DOMAIN results :
               /\ results[k].spraay_fee =
                      UnitFee([batch |-> k, calls |-> UnitOf(ChunkNo(k))])
               /\ \A j \in UnitsOfBatch(k) : results[k].spraay_fee = UnitFee(submitted[j])
               /\ ~results[k].success =>
                      results[k].block_hash = "" /\ results[k].extrinsic_hash = ""

\* a run of three chunks has completed with a failed second chunk and a first
\* chunk that carried a service fee
C18_Witness ==
    /\ op = "batch_transfer" /\ pc = "return"
    /\ Len(results) = 3
    /\ results[1].success /\ results[1].spraay_fee > 0
    /\ outcomes[2] = "unsuccessful" /\ ~results[2].success
    /\ UnitsOfBatch(1) # {} /\ UnitsOfBatch(2) # {}

====
